---- MODULE Spec2Model ----
(***************************************************************************)
(* Model of arcgispro_py3/wedge_maker.py: erase, innerWedgeErase,          *)
(* createOneWedge and createWedges, over a polar grid of cells around the  *)
(* wedge centre.                                                           *)
(*                                                                         *)
(* Angles are integers in half-degrees ("ticks"), so that theta/2 of a     *)
(* whole-degree span is exact, as it is in Python's floats.  A region is a *)
(* set of <<cell, ring>> pairs in the polar grid around the centre of the  *)
(* wedge it belongs to: cell k is the bearing range                        *)
(* [k*CellTicks, (k+1)*CellTicks), ring j the distances (j-1, j] metres    *)
(* from the centre.  Every bearing the program computes from inputs that   *)
(* are multiples of GridDeg degrees falls on a cell boundary, so its       *)
(* sectors are exact unions of cells.  A shape whose edge cuts through     *)
(* cells (createOneWedge's triangle) is the set of the cells it covers     *)
(* wholly.                                                                 *)
(***************************************************************************)
EXTENDS Integers, Sequences, FiniteSets, TLC

VARIABLES
    pc,         \* "loop" | "done" | "failed" (createWedges); "call" | "ret" (one function)
    records,    \* attributesList
    projOut,    \* linearUnitName of the spatial reference
    idx,        \* position of the for loop in attributesList (next record, 1-based)
    count,      \* createWedges' count
    mergeList,  \* createWedges' mergeList: names in the memory workspace
    memory,     \* the memory workspace: name -> feature class
    outputFC,   \* the output feature class, <<>> until it is written
    calls,      \* the createOneWedge calls made so far, in order
    failure,    \* <<>> or <<"record" | "merge", record position, step, tool>> of the
                \* exception raised
    call,       \* arguments of a single function call (the one-function specifications)
    rounding    \* the rounding errors of createOneWedge's triangle at a half turn:
                \* the side of the line of the bearings the sliver lies on and
                \* its width

vars == <<pc, records, projOut, idx, count, mergeList, memory, outputFC, calls,
          failure, call, rounding>>

----------------------------------------------------------------------------
(* Bounds *)

\* input bearings are multiples of GridDeg degrees
GridDeg == 15
\* radii are whole metres in 1..MaxRadius
MaxRadius == 2
\* records per batch
MaxRecords == 3

----------------------------------------------------------------------------
(* Angles and regions *)

Deg(d) == 2 * d

RECURSIVE GCD(_, _)
GCD(a, b) == IF b = 0 THEN a ELSE GCD(b, a % b)

\* half of the finest step the normalised input bearings can differ by
CellTicks == GCD(Deg(GridDeg), Deg(360)) \div 2

Cells == 0 .. ((Deg(360) \div CellTicks) - 1)

Rings == 1 .. MaxRadius

\* the cells swept clockwise from bearing a to bearing b
ArcCells(a, b) ==
    {k \in Cells : (k * CellTicks - a) % Deg(360) < (b - a) % Deg(360)}

Disk(r) == {<<k, j>> : k \in Cells, j \in 1 .. r}

Sector(a, b, r) == {<<k, j>> : k \in ArcCells(a, b), j \in 1 .. r}

RECURSIVE RingSum(_, _)
RingSum(region, j) ==
    IF j = 0 THEN 0
    ELSE (2 * j - 1) * Cardinality({c \in region : c[2] = j}) + RingSum(region, j - 1)

\* area in units of (cell angle / 2) square metres: ring j of one cell has
\* area (cell angle / 2) * (j^2 - (j-1)^2)
Area(region) == RingSum(region, MaxRadius)

----------------------------------------------------------------------------
(* Feature classes: rows with a geometry and a WID attribute (<<>> = no    *)
(* value), and the set of field names.  A row's object id is its position; *)
(* object ids of the memory workspace start at 1.  The rows Union_analysis *)
(* writes also hold the two FID_<name> attributes until DeleteField        *)
(* removes them.                                                           *)

Row(g, wid) == [geom |-> g, WID |-> wid]

FC(rows, fields) == [rows |-> rows, fields |-> fields]

RECURSIVE GeomOfRows(_)
GeomOfRows(rows) ==
    IF rows = <<>> THEN {} ELSE Head(rows).geom \cup GeomOfRows(Tail(rows))

GeomOf(fc) == GeomOfRows(fc.rows)

NonEmpty(row) == row.geom # {}

\* the memory workspace holds name -> feature class; writing a name
\* replaces what it held (arcpy.env.overwriteOutput = True)
Put(mem, name, fc) == (name :> fc) @@ mem

\* a name is <<workspace, base, n>>: the path workspace\base when n = 0 and
\* workspace\base + str(n) otherwise
Mem(base) == <<"memory", base, 0>>

----------------------------------------------------------------------------
(* The geometry engine's tools, as the program uses them *)

\* arcpy.Buffer_analysis([pointGeometry], out, f"{r} METERS"): the disk of
\* r metres on the ground around the point (centerX, centerY), whatever the
\* linear unit of the spatial reference; in the grid around that point
Buffer(centerX, centerY, r) == FC(<<Row(Disk(r), <<>>)>>, {"BUFF_DIST", "ORIG_FID"})

\* arcpy.CopyFeatures_management
CopyFeatures(fc) == fc

ClipRow(row, g) == Row(row.geom \cap g, row.WID)

\* arcpy.Clip_analysis(in, clip, out): the input's rows cut to the clip
\* features, rows cut to nothing dropped
Clip(inFC, clipFC) ==
    FC(SelectSeq([i \in 1 .. Len(inFC.rows) |-> ClipRow(inFC.rows[i], GeomOf(clipFC))],
                 NonEmpty),
       inFC.fields)

\* a row of the union's output: fidInput and fidErase are the names of its
\* two provenance fields
Fragment(g, wid, fidInput, i, fidErase, j) ==
    (fidInput :> i) @@ (fidErase :> j) @@ Row(g, wid)

\* arcpy.Union_analysis([input, erase layer], out): one fragment per input
\* row x erase row overlap, one per input row outside the erase rows, one per
\* erase row outside the input rows; the FID fields hold the object id of
\* the row a fragment comes from, -1 when it comes from none
UnionBoth(inFC, erFC, fidInput, fidErase) ==
    LET n == Len(inFC.rows)
        m == Len(erFC.rows)
    IN  [p \in 1 .. n * m |->
            LET i == ((p - 1) \div m) + 1
                j == ((p - 1) % m) + 1
            IN  Fragment(inFC.rows[i].geom \cap erFC.rows[j].geom, inFC.rows[i].WID,
                         fidInput, i, fidErase, j)]

UnionOnlyInput(inFC, erFC, fidInput, fidErase) ==
    [i \in 1 .. Len(inFC.rows) |->
        Fragment(inFC.rows[i].geom \ GeomOf(erFC), inFC.rows[i].WID,
                 fidInput, i, fidErase, -1)]

UnionOnlyErase(inFC, erFC, fidInput, fidErase) ==
    [j \in 1 .. Len(erFC.rows) |->
        Fragment(erFC.rows[j].geom \ GeomOf(inFC), <<>>, fidInput, -1, fidErase, j)]

Union_analysis(inFC, erFC, fidInput, fidErase) ==
    FC(SelectSeq(UnionBoth(inFC, erFC, fidInput, fidErase)
                     \o UnionOnlyInput(inFC, erFC, fidInput, fidErase)
                     \o UnionOnlyErase(inFC, erFC, fidInput, fidErase), NonEmpty),
       inFC.fields \cup erFC.fields \cup {fidInput, fidErase})

\* arcpy.Merge_management(list, out): the rows of every input, in order
RECURSIVE MergeRows(_)
MergeRows(fcs) ==
    IF fcs = <<>> THEN <<>> ELSE Head(fcs).rows \o MergeRows(Tail(fcs))

RECURSIVE MergeFields(_)
MergeFields(fcs) ==
    IF fcs = <<>> THEN {} ELSE Head(fcs).fields \cup MergeFields(Tail(fcs))

Merge(fcs) == FC(MergeRows(fcs), MergeFields(fcs))

\* arcpy.Dissolve_management(in, out) with no dissolve field: one row
\* holding the planar union of all rows
Dissolve(fc) ==
    FC(IF GeomOf(fc) = {} THEN <<>> ELSE <<Row(GeomOf(fc), <<>>)>>, {})

DropAttribute(row, f) ==
    IF f \in DOMAIN row THEN [x \in (DOMAIN row) \ {f} |-> row[x]] ELSE row

\* arcpy.DeleteField_management
DeleteField(fc, f) ==
    FC([i \in 1 .. Len(fc.rows) |-> DropAttribute(fc.rows[i], f)], fc.fields \ {f})

\* arcpy.AddField_management: the new field holds no value yet
AddField(fc, f) == FC(fc.rows, fc.fields \cup {f})

\* the update cursor on "WID": row[0] = wedgeNumber on every row
SetWID(fc, wedgeNumber) ==
    FC([i \in 1 .. Len(fc.rows) |-> [fc.rows[i] EXCEPT !.WID = <<wedgeNumber>>]],
       fc.fields)

RECURSIVE Fetch(_, _)
Fetch(mem, names) ==
    IF names = <<>> THEN <<>> ELSE <<mem[Head(names)]>> \o Fetch(mem, Tail(names))

----------------------------------------------------------------------------
(* The triangle of createOneWedge(centerX, centerY, angleA, angleB, r,     *)
(* outWedgeName, projOut), in the grid around (centerX, centerY)           *)

Units == {"Meter", "Foot_US"}

\* adjustment = 3.2808399 if projOut.linearUnitName == "Foot_US" else 1,
\* times 10^7
FootAdjustmentE7 == 32808399
UnitE7 == 10000000

\* variant: no conversion to feet
Adjustment_None(unit) == UnitE7

Adjustment(unit) == IF unit = "Foot_US" THEN FootAdjustmentE7 ELSE UnitE7

\* coordinate units per metre of the spatial reference, times 10^7 (the US
\* survey foot is 1200/3937 m)
UnitsPerMetre(unit) ==
    IF unit = "Foot_US" THEN (3937 * (UnitE7 \div 100)) \div 12 ELSE UnitE7

\* 10^4 * cos(q / 4 degrees) for 0 <= q <= 360, by the cosine series in
\* integers: within 2 of the value, never above 10^4, and 5000 at 60 degrees
CosE4(q) ==
    LET x  == (q * 436332) \div 10000
        x2 == (x * x) \div 10000
        t1 == x2 \div 2
        t2 == (t1 * x2) \div 120000
        t3 == (t2 * x2) \div 300000
        t4 == (t3 * x2) \div 560000
    IN  10000 - t1 + t2 - t3 + t4

\* a factor times 10^7, to three decimals
E4(factor) == factor \div 1000

\* With angleB opposite angleA, math.cos(theta/2) is 6.1e-17 instead of 0:
\* hyp is 1.6e16 * r * adjustment, and ptA and ptB lie at that distance on
\* either end of the line of the two bearings, off it by the rounding errors
\* of math.radians, math.sin, math.cos and of the sum with centerX, centerY
\* (at 1.6e16 a double's last place is 2 units).  The triangle is a sliver
\* along that line: which side of the line it lies on and how far from the
\* centre the line ptA-ptB passes change with centerX, centerY, the
\* bearings, r and the unit, in the last places of their doubles, which the
\* model does not hold.  The same goes for an angleB that is one of the
\* doubles next to the bearing opposite angleA (math.nextafter), where hyp
\* is 1e15 * r * adjustment and more; there theta % 360 rounds to 180 or, for
\* an angleB after the opposite bearing, to a double above 180.  The side is
\* either one; the width is any of the distances that tell the grid's cells
\* apart (10^-4 metres on the ground).
Sides == {"clockwise", "anticlockwise"}

SliverWidths ==
    {0} \cup {j * CosE4(2 * i * CellTicks) : j \in Rings, i \in 0 .. (Deg(90) \div CellTicks)}

\* over: theta % 360 computes to more than 180
Roundings == [over : BOOLEAN, side : Sides, width : SliverWidths]

\* the rounding of a run that makes no call with bearings opposite or
\* within rounding distance of it
NoRounding == [over |-> FALSE, side |-> "clockwise", width |-> 0]

\* angleB is the bearing opposite angleA or a double next to it
AtHalfTurn(angleA, angleB) == (angleB - angleA) % Deg(360) = Deg(180)

\* The triangle [center, ptA, ptB, center], its apexes at distance
\* hyp = |r * adjustment / cos(theta/2)| along bearings angleA and angleB.
\* Seen from the centre it spans the smaller angle between the two bearings,
\* clockwise from TriangleFrom over TriangleSpan ticks; at a half turn it
\* spans the half turn on the side of the sliver.
TriangleFrom(angleA, angleB) ==
    IF AtHalfTurn(angleA, angleB)
    THEN (IF rounding.side = "clockwise" THEN angleA ELSE angleB)
    ELSE IF (angleB - angleA) % Deg(360) < Deg(180) THEN angleA
    ELSE angleB

TriangleSpan(angleA, angleB) ==
    LET s == (angleB - angleA) % Deg(360)
    IN  IF s > Deg(180) THEN Deg(360) - s ELSE s

TriangleCells(angleA, angleB) ==
    ArcCells(TriangleFrom(angleA, angleB),
             TriangleFrom(angleA, angleB) + TriangleSpan(angleA, angleB))

\* the distance of the line ptA-ptB from the centre, in 10^-8 coordinate
\* units: hyp * |cos(theta/2)| = r * adjustment, and the width of the sliver
\* at a half turn
Chord(angleA, angleB, r, unit) ==
    IF AtHalfTurn(angleA, angleB)
    THEN rounding.width * E4(UnitsPerMetre(unit))
    ELSE r * 10000 * E4(Adjustment(unit))

\* the angle, in quarter-degrees, between the bisector of the triangle's
\* span and the nearest bearing of cell k
OffBisector(angleA, angleB, k) ==
    LET lo  == 2 * ((k * CellTicks - TriangleFrom(angleA, angleB)) % Deg(360))
        hi  == lo + 2 * CellTicks
        mid == TriangleSpan(angleA, angleB)
    IN  IF hi <= mid THEN mid - hi
        ELSE IF lo >= mid THEN lo - mid
        ELSE 0

\* the rings out to which cell k of the triangle's span lies wholly in the
\* triangle: the cell's far corner (j metres from the centre, at the bearing
\* nearest the bisector) is not beyond the line ptA-ptB
RingsWithin(angleA, angleB, r, unit, k) ==
    LET c == CosE4(OffBisector(angleA, angleB, k)) * E4(UnitsPerMetre(unit))
        d == Chord(angleA, angleB, r, unit)
    IN  {j \in Rings : j * c <= d}

\* the cells the triangle covers wholly, in the grid around (centerX,
\* centerY); with the bearings equal ptA is ptB and it covers nothing.
\* Beyond r * adjustment the triangle still covers the cells next to its two
\* sides, out to hyp.
Triangle(centerX, centerY, angleA, angleB, r, unit) ==
    LET g == UNION {{k} \X RingsWithin(angleA, angleB, r, unit, k) :
                       k \in TriangleCells(angleA, angleB)}
    IN  FC(<<Row(g, <<>>)>>, {})

\* triangle_poly, by the arguments its vertices are computed from
Polygon(centerX, centerY, angleA, angleB, r, unit) ==
    <<centerX, centerY, angleA, angleB, r, unit>>

\* the feature class CopyFeatures_management([triangle_poly], ...) writes
PolygonFeatures(poly) == Triangle(poly[1], poly[2], poly[3], poly[4], poly[5], poly[6])

----------------------------------------------------------------------------
(* Every function of the program is a sequence of calls of the geometry    *)
(* engine, fixed by its arguments.  A call reads the feature classes src,  *)
(* writes dst and may raise instead; a call that raises writes nothing.    *)

Call(tool, src, dst, arg) == [tool |-> tool, src |-> src, dst |-> dst, arg |-> arg]

\* os.path.basename(fc): the name without its workspace
BaseName(fc) == fc[2] \o (IF fc[3] = 0 THEN "" ELSE ToString(fc[3]))

\* f"FID_{os.path.basename(fc)}"
FIDName(fc) == "FID_" \o BaseName(fc)

\* the provenance field Union_analysis writes for its second input: FID_ and
\* the input's base name, made unique with _1 when the first input has the
\* same base name
UnionFIDName(input_fc, erase_fc) ==
    IF BaseName(erase_fc) = BaseName(input_fc) THEN FIDName(erase_fc) \o "_1"
    ELSE FIDName(erase_fc)

\* variant: the erase test off by one (FID_erase > 1)
DeleteWhere_FromSecondRow(frag, fidInput, fidErase) ==
    frag[fidInput] < 0 \/ frag[fidErase] > 1

\* the where clause of the delete cursor
DeleteWhere(frag, fidInput, fidErase) == frag[fidInput] < 0 \/ frag[fidErase] > 0

KeepFragment(frag, fidInput, fidErase) == ~DeleteWhere(frag, fidInput, fidErase)

\* the delete cursor: uCur.deleteRow() on every row the where clause selects
DeleteRows(fc, fidInput, fidErase) ==
    LET Kept(frag) == KeepFragment(frag, fidInput, fidErase)
    IN  FC(SelectSeq(fc.rows, Kept), fc.fields)

\* the erase layer: the erase features with every field hidden
EraseLayer(erFC) == FC(erFC.rows, {})

\* the workspace after one call that does not raise
Exec(mem, c) ==
    CASE c.tool \in {"Polygon", "ListFields", "MakeFeatureLayer_management", "Describe"}
            -> mem
      [] c.tool = "CopyFeatures_management"
            -> Put(mem, c.dst, CopyFeatures(IF c.src = <<>> THEN PolygonFeatures(c.arg)
                                            ELSE mem[c.src[1]]))
      [] c.tool = "Buffer_analysis"
            -> Put(mem, c.dst, Buffer(c.arg[1], c.arg[2], c.arg[3]))
      [] c.tool = "Clip_analysis"
            -> Put(mem, c.dst, Clip(mem[c.src[1]], mem[c.src[2]]))
      [] c.tool = "Union_analysis"
            -> Put(mem, c.dst, Union_analysis(mem[c.src[1]], EraseLayer(mem[c.src[2]]),
                                              FIDName(c.src[1]),
                                              UnionFIDName(c.src[1], c.src[2])))
      [] c.tool = "UpdateCursor.deleteRow"
            -> Put(mem, c.dst, DeleteRows(mem[c.dst], FIDName(c.src[1]), FIDName(c.src[2])))
      [] c.tool = "DeleteField_management"
            -> Put(mem, c.dst, DeleteField(mem[c.dst], c.arg))
      [] c.tool = "Merge_management"
            -> Put(mem, c.dst, Merge(Fetch(mem, c.src)))
      [] c.tool = "Dissolve_management"
            -> Put(mem, c.dst, Dissolve(mem[c.src[1]]))
      [] c.tool = "AddField_management"
            -> Put(mem, c.dst, AddField(mem[c.dst], c.arg))
      [] c.tool = "UpdateCursor.updateRow"
            -> Put(mem, c.dst, SetWID(mem[c.dst], c.arg))

\* the workspace after a sequence of calls that do not raise, each made in
\* the workspace the call before it left (the singleton binds that workspace
\* to its value, so that it is computed once)
RECURSIVE Run(_, _)
Run(mem, cs) ==
    IF Len(cs) = 0 THEN mem
    ELSE CHOOSE out \in {Run(Exec(m, Head(cs)), Tail(cs)) : m \in {mem}} : TRUE

----------------------------------------------------------------------------
(* erase(input_fc, erase_fc, output_fc) *)

eraseCalls(input_fc, erase_fc, output_fc) ==
    <<Call("ListFields", <<erase_fc>>, <<>>, <<>>),
      Call("MakeFeatureLayer_management", <<erase_fc>>, <<>>, <<>>),
      Call("Union_analysis", <<input_fc, erase_fc>>, output_fc, <<>>),
      Call("UpdateCursor.deleteRow", <<input_fc, erase_fc>>, output_fc, <<>>),
      Call("DeleteField_management", <<>>, output_fc, FIDName(input_fc)),
      Call("DeleteField_management", <<>>, output_fc, FIDName(erase_fc))>>

erase(mem, input_fc, erase_fc, output_fc) ==
    Run(mem, eraseCalls(input_fc, erase_fc, output_fc))

----------------------------------------------------------------------------
(* innerWedgeErase(centerX, centerY, r2, wedge); r2 is <<>> (None) or <<v>>. *)

NotR2(r2) == r2 = <<>> \/ r2[1] = 0

\* variant: erase called with its first two arguments exchanged
innerWedgeEraseCalls_Swapped(centerX, centerY, r2, wedge) ==
    IF NotR2(r2) THEN <<>>
    ELSE <<Call("Describe", <<wedge>>, <<>>, <<>>),
           Call("Buffer_analysis", <<>>, Mem("circle"), <<centerX, centerY, r2[1]>>)>>
         \o eraseCalls(Mem("circle"), wedge, Mem("oWedge2"))

innerWedgeEraseCalls(centerX, centerY, r2, wedge) ==
    IF NotR2(r2) THEN <<>>
    ELSE <<Call("Describe", <<wedge>>, <<>>, <<>>),
           Call("Buffer_analysis", <<>>, Mem("circle"), <<centerX, centerY, r2[1]>>)>>
         \o eraseCalls(wedge, Mem("circle"), Mem("oWedge2"))

\* the name innerWedgeErase returns
innerWedgeEraseName(r2, wedge) == IF NotR2(r2) THEN wedge ELSE Mem("oWedge2")

\* the workspace and the name of the result
innerWedgeErase(mem, centerX, centerY, r2, wedge) ==
    [mem |-> Run(mem, innerWedgeEraseCalls(centerX, centerY, r2, wedge)),
     name |-> innerWedgeEraseName(r2, wedge)]

----------------------------------------------------------------------------
(* createOneWedge(centerX, centerY, angleA, angleB, r, outWedgeName, projOut) *)

\* variant: theta compared without % 360
EraseBool_NoModulo(angleA, angleB) == (angleB - angleA) > Deg(180)

\* erase_bool = (theta % 360 > 180), with theta = angleB - angleA
EraseBool(angleA, angleB) ==
    \/ ((angleB - angleA) % Deg(360)) > Deg(180)
    \/ AtHalfTurn(angleA, angleB) /\ rounding.over

\* which of the three exits the call takes
Branch(angleA, angleB) ==
    IF angleB - angleA = 0 THEN "copy"
    ELSE IF EraseBool(angleA, angleB) THEN "erase"
    ELSE "clip"

createOneWedgeCalls(centerX, centerY, angleA, angleB, r, outWedgeName, unit) ==
    LET triangle == Mem("triangle")
        circle   == Mem("circle")
        outWedge == Mem(outWedgeName)
        triangle_poly == Polygon(centerX, centerY, angleA, angleB, r, unit)
    IN  <<Call("Polygon", <<>>, <<>>, triangle_poly),
          Call("CopyFeatures_management", <<>>, triangle, triangle_poly),
          Call("Buffer_analysis", <<>>, circle, <<centerX, centerY, r>>)>>
        \o (IF angleB - angleA = 0
            THEN <<Call("CopyFeatures_management", <<circle>>, outWedge, <<>>)>>
            ELSE IF EraseBool(angleA, angleB)
            THEN eraseCalls(circle, triangle, outWedge)
            ELSE <<Call("Clip_analysis", <<circle, triangle>>, outWedge, <<>>)>>)

createOneWedge(mem, centerX, centerY, angleA, angleB, r, outWedgeName, unit) ==
    Run(mem, createOneWedgeCalls(centerX, centerY, angleA, angleB, r, outWedgeName, unit))

----------------------------------------------------------------------------
(* createWedges(attributesList, outputFC, projOut).  A record is the tuple *)
(* <<id, x, y, angleA, angleB, r1>> or <<id, x, y, angleA, angleB, r1, r2>> *)
(* (wedge[0] .. wedge[6] of the source are positions 1 .. 7).              *)

\* variants: no skip at all; the skip test made after normalisation
IsSkipped_Never(rec) == FALSE

IsSkipped_Normalised(rec) == rec[4] % Deg(360) = rec[5] % Deg(360)

\* if angleA == angleB: ... continue
IsSkipped(rec) == rec[4] = rec[5]

Theta(rec) == ((rec[5] % Deg(360)) - (rec[4] % Deg(360))) % Deg(360)

\* variant: the band cut at the half turn
IsSplit_BelowHalfTurn(rec) == Deg(135) < Theta(rec) /\ Theta(rec) < Deg(180)

\* if 135 < theta < 225
IsSplit(rec) == Deg(135) < Theta(rec) /\ Theta(rec) < Deg(225)

WedgeCall(x, y, a, b, r, out) ==
    [centerX |-> x, centerY |-> y, angleA |-> a, angleB |-> b, r |-> r, out |-> out]

\* the createOneWedge calls made for one record, in order
WedgeCalls(rec) ==
    LET centerX == rec[2]
        centerY == rec[3]
        angleA == rec[4] % Deg(360)
        angleB == rec[5] % Deg(360)
        theta  == (angleB - angleA) % Deg(360)
        r1     == rec[6]
    IN  IF IsSplit(rec)
        THEN LET angleB1 == (angleA + theta \div 2) % Deg(360)
                 angleB2 == (angleB1 + theta \div 2) % Deg(360)
             IN  <<WedgeCall(centerX, centerY, angleA, angleB1, r1, "WedgeA"),
                   WedgeCall(centerX, centerY, angleB1, angleB2, r1, "WedgeB")>>
        ELSE <<WedgeCall(centerX, centerY, angleA, angleB, r1, "oWedge")>>

\* the engine calls of one createOneWedge call of createWedges
OneWedgeCalls(c, unit) ==
    createOneWedgeCalls(c.centerX, c.centerY, c.angleA, c.angleB, c.r, c.out, unit)

RECURSIVE AllWedgeCalls(_, _)
AllWedgeCalls(cs, unit) ==
    IF cs = <<>> THEN <<>>
    ELSE OneWedgeCalls(Head(cs), unit) \o AllWedgeCalls(Tail(cs), unit)

\* the wedge of one record: one call, or two calls merged and dissolved;
\* the result is memory\oWedge
BuildCalls(rec, unit) ==
    AllWedgeCalls(WedgeCalls(rec), unit)
    \o (IF IsSplit(rec)
        THEN <<Call("Merge_management", <<Mem("WedgeA"), Mem("WedgeB")>>, Mem("WedgeC"), <<>>),
               Call("Dissolve_management", <<Mem("WedgeC")>>, Mem("oWedge"), <<>>)>>
        ELSE <<>>)

BuildWedge(mem, rec, unit) == Run(mem, BuildCalls(rec, unit))

\* if len(wedge) == 7: oWedge = innerWedgeErase(centerX, centerY, r2, oWedge)
CutCalls(rec) ==
    IF Len(rec) = 7 THEN innerWedgeEraseCalls(rec[2], rec[3], <<rec[7]>>, Mem("oWedge"))
    ELSE <<>>

CutName(rec) ==
    IF Len(rec) = 7 THEN innerWedgeEraseName(<<rec[7]>>, Mem("oWedge")) ELSE Mem("oWedge")

\* AddField(oWedge, "WID") and the update cursor setting it on every row
TagCalls(rec) ==
    <<Call("AddField_management", <<>>, CutName(rec), "WID"),
      Call("UpdateCursor.updateRow", <<>>, CutName(rec), rec[1])>>

\* variant: one name for every part
NextWedgeName_Fixed(c) == <<"memory", "nextWedge", 0>>

\* "memory\\nextWedge" + str(count), with count already incremented
NextWedgeName(c) == <<"memory", "nextWedge", c>>

\* the engine calls of one loop iteration, c being count at its start;
\* count += 1 lies between the last two
RecordCalls(rec, unit, c) ==
    BuildCalls(rec, unit) \o CutCalls(rec) \o TagCalls(rec)
    \o <<Call("CopyFeatures_management", <<CutName(rec)>>, NextWedgeName(c + 1), <<>>)>>

CallLog(pos, rec) ==
    [i \in 1 .. Len(WedgeCalls(rec)) |->
        [rec |-> pos, centerX |-> WedgeCalls(rec)[i].centerX,
         centerY |-> WedgeCalls(rec)[i].centerY, angleA |-> WedgeCalls(rec)[i].angleA,
         angleB |-> WedgeCalls(rec)[i].angleB, r |-> WedgeCalls(rec)[i].r,
         out |-> WedgeCalls(rec)[i].out,
         branch |-> Branch(WedgeCalls(rec)[i].angleA, WedgeCalls(rec)[i].angleB)]]

\* how many createOneWedge calls have been entered when the k-th engine
\* call of the iteration is made
CallsMadeBy(rec, unit, k) ==
    IF IsSplit(rec) /\ k <= Len(OneWedgeCalls(WedgeCalls(rec)[1], unit)) THEN 1
    ELSE Len(WedgeCalls(rec))

SkipRecord ==
    /\ pc = "loop"
    /\ idx <= Len(records)
    /\ IsSkipped(records[idx])
    /\ count' = count + 1
    /\ idx' = idx + 1
    /\ UNCHANGED <<pc, rounding, records, projOut, mergeList, memory, outputFC, calls,
                   failure, call>>

ProcessRecord ==
    /\ pc = "loop"
    /\ idx <= Len(records)
    /\ ~IsSkipped(records[idx])
    /\ memory' = Run(memory, RecordCalls(records[idx], projOut, count))
    /\ count' = count + 1
    /\ mergeList' = Append(mergeList, NextWedgeName(count + 1))
    /\ calls' = calls \o CallLog(idx, records[idx])
    /\ idx' = idx + 1
    /\ UNCHANGED <<pc, rounding, records, projOut, outputFC, failure, call>>

\* variant: the exception caught and the loop carried on
Raise_Swallowed(where, pos, step, tool) ==
    [pc |-> "loop", failure |-> <<where, pos, step, tool>>]

\* nothing in createWedges catches an exception: it leaves the loop and the
\* function
Raise(where, pos, step, tool) ==
    [pc |-> "failed", failure |-> <<where, pos, step, tool>>]

\* the k-th engine call of the iteration raises: the calls before it have
\* written the workspace
FailRecord ==
    /\ pc = "loop"
    /\ idx <= Len(records)
    /\ ~IsSkipped(records[idx])
    /\ LET cs == RecordCalls(records[idx], projOut, count)
       IN  \E k \in 1 .. Len(cs) :
              /\ memory' = Run(memory, SubSeq(cs, 1, k - 1))
              /\ count' = IF k = Len(cs) THEN count + 1 ELSE count
              /\ calls' = calls \o SubSeq(CallLog(idx, records[idx]), 1,
                                          CallsMadeBy(records[idx], projOut, k))
              /\ failure' = Raise("record", idx, k, cs[k].tool).failure
              /\ pc' = Raise("record", idx, k, cs[k].tool).pc
    /\ UNCHANGED <<rounding, records, projOut, idx, mergeList, outputFC, call>>

\* arcpy.Merge_management(mergeList, outputFC), then DeleteField_management
\* for field in ["BUFF_DIST", "ORIG_FID"]
OutputCalls == <<"Merge_management", "DeleteField_management", "DeleteField_management">>

OutputFields == <<"BUFF_DIST", "ORIG_FID">>

\* outputFC after the first n of the three calls: <<>> while not written
RECURSIVE OutputAfter(_, _, _)
OutputAfter(mem, names, n) ==
    IF n = 0 THEN <<>>
    ELSE IF n = 1 THEN <<Merge(Fetch(mem, names))>>
    ELSE <<DeleteField(OutputAfter(mem, names, n - 1)[1], OutputFields[n - 1])>>

MergedOutput(mem, names) == OutputAfter(mem, names, Len(OutputCalls))[1]

MergeWedges ==
    /\ pc = "loop"
    /\ idx > Len(records)
    /\ mergeList # <<>>
    /\ outputFC' = <<MergedOutput(memory, mergeList)>>
    /\ pc' = "done"
    /\ UNCHANGED <<rounding, records, projOut, idx, count, mergeList, memory, calls,
                   failure, call>>

\* the k-th of the three calls after the loop raises: a DeleteField that
\* raises leaves the merged output written
FailMerge ==
    /\ pc = "loop"
    /\ idx > Len(records)
    /\ mergeList # <<>>
    /\ \E k \in 1 .. Len(OutputCalls) :
          /\ outputFC' = OutputAfter(memory, mergeList, k - 1)
          /\ failure' = Raise("merge", idx, k, OutputCalls[k]).failure
          /\ pc' = Raise("merge", idx, k, OutputCalls[k]).pc
    /\ UNCHANGED <<rounding, records, projOut, idx, count, mergeList, memory, calls, call>>

\* Merge_management with an empty list of inputs raises
MergeNothing ==
    /\ pc = "loop"
    /\ idx > Len(records)
    /\ mergeList = <<>>
    /\ failure' = Raise("merge", idx, 1, OutputCalls[1]).failure
    /\ pc' = Raise("merge", idx, 1, OutputCalls[1]).pc
    /\ UNCHANGED <<rounding, records, projOut, idx, count, mergeList, memory, outputFC,
                   calls, call>>

----------------------------------------------------------------------------
(* Inputs of a batch *)

\* grid steps in a whole turn
GridTurn == 360 \div GridDeg

Ids == {7, 9}

\* wedge centres: the origin and a point of a projected reference
Centres == {<<0, 0>>, <<770062, 5564543>>}

HalfTurn == Deg(GridDeg * (GridTurn \div 2))

ThreeQuarterTurn == Deg(GridDeg * ((3 * GridTurn) \div 4))

\* a record with equal bearings (skipped); a half turn (split) without inner
\* radius and with an inner radius below r1; a reflex span without inner
\* radius and with an inner radius equal to r1
BatchRecords ==
    {<<7, 0, 0, Deg(0), Deg(0), MaxRadius>>,
     <<9, 0, 0, Deg(0), HalfTurn, MaxRadius>>,
     <<9, 0, 0, Deg(0), HalfTurn, MaxRadius, 1>>,
     <<7, 770062, 5564543, Deg(0), ThreeQuarterTurn, MaxRadius>>,
     <<9, 770062, 5564543, Deg(0), ThreeQuarterTurn, MaxRadius, MaxRadius>>}

RECURSIVE SeqsUpTo(_, _)
SeqsUpTo(S, n) ==
    IF n = 0 THEN {<<>>}
    ELSE SeqsUpTo(S, n - 1)
         \cup {Append(q, x) : q \in {t \in SeqsUpTo(S, n - 1) : Len(t) = n - 1}, x \in S}

\* createWedges calls createOneWedge with no theta in (135, 225)
Start(recs, unit) ==
    /\ rounding = NoRounding
    /\ pc = "loop"
    /\ records = recs
    /\ projOut = unit
    /\ idx = 1
    /\ count = 1
    /\ mergeList = <<>>
    /\ memory = <<>>
    /\ outputFC = <<>>
    /\ calls = <<>>
    /\ failure = <<>>
    /\ call = <<>>

Init == \E recs \in SeqsUpTo(BatchRecords, MaxRecords), unit \in Units : Start(recs, unit)

Next ==
    SkipRecord \/ ProcessRecord \/ FailRecord \/ MergeWedges \/ FailMerge \/ MergeNothing

Spec == Init /\ [][Next]_vars

----------------------------------------------------------------------------
(* Batches of one record, over every pair of bearings of the grid from one *)
(* turn below zero to two turns above                                      *)

WideBearings == {Deg(GridDeg * k) : k \in (0 - GridTurn) .. (2 * GridTurn)}

\* with the smallest and the largest radius
WideRecords ==
    {<<7, 0, 0, a, b, r1>> : a \in WideBearings, b \in WideBearings, r1 \in {1, MaxRadius}}
    \cup
    {<<9, 0, 0, a, Deg(GridDeg * k), MaxRadius, 0>> :
        a \in WideBearings, k \in {0, GridTurn \div 2}}

InitWide == \E rec \in WideRecords, unit \in Units : Start(<<rec>>, unit)

SpecWide == InitWide /\ [][Next]_vars

----------------------------------------------------------------------------
(* One call of one function *)

CallStart(c, mem, rd) ==
    /\ rounding = rd
    /\ pc = "call"
    /\ call = c
    /\ memory = mem
    /\ records = <<>>
    /\ projOut = "Meter"
    /\ idx = 1
    /\ count = 1
    /\ mergeList = <<>>
    /\ outputFC = <<>>
    /\ calls = <<>>
    /\ failure = <<>>

Return(mem, name) ==
    /\ pc' = "ret"
    /\ memory' = mem
    /\ call' = [call EXCEPT !.ret = name]
    /\ UNCHANGED <<rounding, records, projOut, idx, count, mergeList, outputFC, calls, failure>>

\* createOneWedge with bearings in [0, 360), as its docstring requires
GridBearings == {Deg(GridDeg * k) : k \in 0 .. (GridTurn - 1)}

\* the bearing opposite a
Opposite(a) == (a + Deg(180)) % Deg(360)

\* angleB is the double `places` doubles after the bearing (before it when
\* negative): math.nextafter
Places == {-1, 0, 1}

PlacesOf(a, b) == IF AtHalfTurn(a, b) THEN Places ELSE {0}

\* the rounding errors matter to a call at a half turn only; the rounding of
\* the doubles is monotonic, and theta % 360 computes to more than 180 only
\* with angleB after the opposite bearing
RoundingsOf(a, b, places) ==
    IF AtHalfTurn(a, b) THEN {rd \in Roundings : rd.over => places > 0}
    ELSE {NoRounding}

InitSector ==
    \E c \in Centres, a \in GridBearings, r \in 1 .. MaxRadius, unit \in Units :
        \E b \in GridBearings \cup {Opposite(a)} :
            \E places \in PlacesOf(a, b) :
                \E rd \in RoundingsOf(a, b, places) :
                    CallStart([op |-> "createOneWedge", centerX |-> c[1], centerY |-> c[2],
                               angleA |-> a, angleB |-> b, places |-> places, r |-> r,
                               unit |-> unit, ret |-> <<>>], <<>>, rd)

CallCreateOneWedge ==
    /\ pc = "call"
    /\ call.op = "createOneWedge"
    /\ Return(createOneWedge(memory, call.centerX, call.centerY, call.angleA, call.angleB,
                             call.r, "oWedge", call.unit),
              Mem("oWedge"))

SpecSector == InitSector /\ [][CallCreateOneWedge]_vars

\* erase on feature classes of one or two rows
QuarterTurns == {0, GridTurn \div 4, GridTurn \div 2}

Shapes(radii) ==
    {Sector(Deg(GridDeg * a), Deg(GridDeg * b), r) :
        a \in QuarterTurns, b \in QuarterTurns, r \in radii} \ {{}}

\* one row, one row of two parts, or two rows
RowsOf(shapes, wids) ==
    {<<Row(g \cup h, w)>> : g \in shapes, h \in shapes, w \in wids}
    \cup {<<Row(g, w), Row(h, w)>> : g \in shapes, h \in shapes, w \in wids}

InitErase ==
    \E inRows \in RowsOf(Shapes({MaxRadius}), {<<7>>}),
       erRows \in RowsOf(Shapes(1 .. MaxRadius), {<<>>}) :
        CallStart([op |-> "erase", input |-> FC(inRows, {"WID"}),
                   eraseRegion |-> FC(erRows, {"BUFF_DIST"}), ret |-> <<>>],
                  Put(Put(<<>>, Mem("input"), FC(inRows, {"WID"})),
                      Mem("erase"), FC(erRows, {"BUFF_DIST"})),
                  NoRounding)

CallErase ==
    /\ pc = "call"
    /\ call.op = "erase"
    /\ Return(erase(memory, Mem("input"), Mem("erase"), Mem("output")), Mem("output"))

SpecErase == InitErase /\ [][CallErase]_vars

\* innerWedgeErase on the wedge createWedges has built for a record
InitCut ==
    \E a \in GridBearings, b \in GridBearings, r1 \in 1 .. MaxRadius,
       r2 \in {<<>>} \cup {<<v>> : v \in 0 .. MaxRadius} :
        /\ a # b
        /\ CallStart([op |-> "innerWedgeErase", centerX |-> 0, centerY |-> 0,
                      r1 |-> r1, r2 |-> r2, ret |-> <<>>],
                     BuildWedge(<<>>, <<7, 0, 0, a, b, r1>>, "Meter"), NoRounding)

CallInnerWedgeErase ==
    /\ pc = "call"
    /\ call.op = "innerWedgeErase"
    /\ LET res == innerWedgeErase(memory, call.centerX, call.centerY, call.r2, Mem("oWedge"))
       IN  Return(res.mem, res.name)

SpecCut == InitCut /\ [][CallInnerWedgeErase]_vars

----------------------------------------------------------------------------
(* Properties of createOneWedge alone (SpecSector) *)

CallSpan == (call.angleB - call.angleA) % Deg(360)

Returned == memory[call.ret]

\* the result is the part of the disk swept clockwise from angleA to
\* angleB, and its area is r^2 * theta / 2 (in units of cell angle / 2:
\* r^2 times the number of cells of the span), to the resolution of the grid
IsSweptSector ==
    /\ GeomOf(Returned) = Sector(call.angleA, call.angleB, call.r)
    /\ Area(GeomOf(Returned)) * CellTicks = call.r * call.r * CallSpan

\* the result lies within the half disk on one side of the line of the two
\* bearings
InOneHalfDisk(g) ==
    \/ g \subseteq Sector(call.angleA, call.angleB, call.r)
    \/ g \subseteq Sector(call.angleB, call.angleA, call.r)

\* C4 as stated: for every theta strictly in (0, 360) the sector returned
\* by createOneWedge has area r^2 * theta_rad / 2 and is the part of the disk
\* swept clockwise from angleA to angleB, whichever branch is taken.
C4_SectorForEverySpan ==
    (pc = "ret" /\ call.op = "createOneWedge" /\ 0 < CallSpan /\ CallSpan < Deg(360))
        => IsSweptSector

\* C4 amended: the same for every theta in (0, 360) with angleB not the
\* bearing opposite angleA nor a double next to it.  There the triangle is
\* made of rounding errors: when theta % 360 computes to 180 or less (the
\* disk is clipped) the result is only some part of the half disk on one
\* side of the line of the two bearings, and when it computes to more (the
\* triangle is erased) it is the disk less some part of such a half disk.
C4_SectorButHalfTurn ==
    (pc = "ret" /\ call.op = "createOneWedge" /\ 0 < CallSpan /\ CallSpan < Deg(360))
        => IF ~AtHalfTurn(call.angleA, call.angleB) THEN IsSweptSector
           ELSE IF Branch(call.angleA, call.angleB) = "clip"
           THEN InOneHalfDisk(GeomOf(Returned))
           ELSE /\ GeomOf(Returned) \subseteq Disk(call.r)
                /\ InOneHalfDisk(Disk(call.r) \ GeomOf(Returned))

\* a reflex span whose end bearing is below its start bearing, built by
\* erasing the triangle from the disk, in a Foot_US reference
C4_Witness ==
    /\ pc = "ret" /\ call.op = "createOneWedge"
    /\ call.angleB < call.angleA
    /\ CallSpan >= Deg(225)
    /\ call.unit = "Foot_US"
    /\ call.r = MaxRadius
    /\ Branch(call.angleA, call.angleB) = "erase"
    /\ IsSweptSector
    /\ GeomOf(Returned) # {}
    /\ GeomOf(Returned) # Disk(call.r)

----------------------------------------------------------------------------
(* Properties of erase alone (SpecErase) *)

FromInput(g) == \E i \in 1 .. Len(call.input.rows) : g \subseteq call.input.rows[i].geom

FromErase(g) == \E j \in 1 .. Len(call.eraseRegion.rows) : g \subseteq call.eraseRegion.rows[j].geom

UnionFragments ==
    Union_analysis(call.input, EraseLayer(call.eraseRegion),
                   FIDName(Mem("input")), UnionFIDName(Mem("input"), Mem("erase"))).rows

KeptOfCall(frag) == KeepFragment(frag, FIDName(Mem("input")), FIDName(Mem("erase")))

\* C5: erase keeps a fragment of union(input, eraseRegion) iff the fragment
\* comes from the input and not from the erase region, so the result is
\* input minus (input intersect eraseRegion), also for an eraseRegion of
\* several parts; input and eraseRegion are left as they were.
C5_EraseIsDifference ==
    (pc = "ret" /\ call.op = "erase") =>
        /\ \A f \in 1 .. Len(UnionFragments) :
              KeptOfCall(UnionFragments[f])
                  <=> (FromInput(UnionFragments[f].geom) /\ ~FromErase(UnionFragments[f].geom))
        /\ GeomOf(Returned) = GeomOf(call.input) \ GeomOf(call.eraseRegion)
        /\ Area(GeomOf(Returned))
              = Area(GeomOf(call.input))
                  - Area(GeomOf(call.input) \cap GeomOf(call.eraseRegion))
        /\ \A i \in 1 .. Len(Returned.rows) :
              /\ Returned.rows[i].geom # {}
              /\ DOMAIN Returned.rows[i] = {"geom", "WID"}
              /\ \E k \in 1 .. Len(call.input.rows) :
                    /\ Returned.rows[i].geom \subseteq call.input.rows[k].geom
                    /\ Returned.rows[i].WID = call.input.rows[k].WID
        /\ Returned.fields = call.input.fields
        /\ memory[Mem("input")] = call.input
        /\ memory[Mem("erase")] = call.eraseRegion

\* an erase region of two rows that overlaps the input without covering it
C5_Witness ==
    /\ pc = "ret" /\ call.op = "erase"
    /\ Len(call.eraseRegion.rows) = 2
    /\ call.eraseRegion.rows[1].geom # call.eraseRegion.rows[2].geom
    /\ GeomOf(call.input) \cap call.eraseRegion.rows[1].geom # {}
    /\ GeomOf(call.input) \cap call.eraseRegion.rows[2].geom # {}
    /\ GeomOf(Returned) # {}
    /\ GeomOf(Returned) # GeomOf(call.input)
    /\ GeomOf(Returned) = GeomOf(call.input) \ GeomOf(call.eraseRegion)

----------------------------------------------------------------------------
(* Properties of innerWedgeErase alone (SpecCut) *)

OuterWedge == memory[Mem("oWedge")]

\* C9: innerWedgeErase returns the wedge unchanged when r2 is zero or
\* absent, and otherwise the wedge with the concentric disk of radius r2
\* erased; for a fixed outer wedge of radius r1 the area of the result
\* strictly decreases as r2 grows within 0 <= r2 < r1, and equals the outer
\* wedge's area at r2 = 0.
C9_CutInnerHole ==
    (pc = "ret" /\ call.op = "innerWedgeErase") =>
        /\ (call.r2 = <<>> \/ call.r2 = <<0>>) =>
              /\ call.ret = Mem("oWedge")
              /\ Area(GeomOf(Returned)) = Area(GeomOf(OuterWedge))
        /\ (call.r2 # <<>> /\ call.r2 # <<0>>) =>
              GeomOf(Returned) = GeomOf(OuterWedge) \ Disk(call.r2[1])
        /\ \A v \in 0 .. MaxRadius :
              (call.r2 = <<v>> /\ v < call.r1) =>
                  \A w \in 0 .. MaxRadius :
                      (w < v) =>
                          LET res == innerWedgeErase(memory, call.centerX, call.centerY,
                                                     <<w>>, Mem("oWedge"))
                          IN  Area(GeomOf(Returned)) < Area(GeomOf(res.mem[res.name]))

\* an inner radius strictly between 0 and r1: an arcband smaller than the wedge
C9_Witness ==
    /\ pc = "ret" /\ call.op = "innerWedgeErase"
    /\ call.r2 = <<1>> /\ call.r1 = MaxRadius
    /\ call.ret = Mem("oWedge2")
    /\ GeomOf(Returned) # {}
    /\ Area(GeomOf(Returned)) < Area(GeomOf(OuterWedge))

----------------------------------------------------------------------------
(* Properties of createWedges (Spec, SpecWide) *)

\* what a record asks for, in the terms of the specification: the span
\* clockwise from angleA to angleB, the disk when the bearings are a whole
\* number of turns apart, less the inner disk
AsGiven(rec) == rec[4] = rec[5]

Span(rec) == (rec[5] - rec[4]) % Deg(360)

InUnsafeBand(theta) == Deg(135) < theta /\ theta < Deg(225)

Wanted(rec) ==
    (IF Span(rec) = 0 THEN Disk(rec[6]) ELSE Sector(rec[4], rec[5], rec[6]))
        \ (IF Len(rec) = 7 THEN Disk(rec[7]) ELSE {})

\* the loop has gone past position p
Passed(p) == p \in 1 .. Len(records) /\ p < idx

CallsOf(p) ==
    LET ForP(c) == c.rec = p
    IN  SelectSeq(calls, ForP)

InMergeList(name) == \E i \in 1 .. Len(mergeList) : mergeList[i] = name

RECURSIVE CountNotSkipped(_)
CountNotSkipped(recs) ==
    IF recs = <<>> THEN 0
    ELSE (IF AsGiven(Head(recs)) THEN 0 ELSE 1) + CountNotSkipped(Tail(recs))

\* C1: a record whose angleA equals angleB as given is skipped: no part is
\* accumulated for it and no wedge (no circle) is built for it; every other
\* record the loop has passed, before or after it, has its part accumulated,
\* holding the shape the record asks for.
C1_SkipEqualBearings ==
    (pc \in {"loop", "done"}) =>
        /\ \A p \in 1 .. Len(records) :
              Passed(p) =>
                  IF AsGiven(records[p])
                  THEN /\ ~InMergeList(NextWedgeName(p + 1))
                       /\ CallsOf(p) = <<>>
                  ELSE /\ InMergeList(NextWedgeName(p + 1))
                       /\ CallsOf(p) # <<>>
                       /\ GeomOf(memory[NextWedgeName(p + 1)]) = Wanted(records[p])
        /\ Len(mergeList) = CountNotSkipped(SubSeq(records, 1, idx - 1))
        /\ pc = "done" =>
              \A i \in 1 .. Len(outputFC[1].rows) :
                  \E p \in 1 .. Len(records) :
                      /\ ~AsGiven(records[p])
                      /\ outputFC[1].rows[i] = Row(Wanted(records[p]), <<records[p][1]>>)

\* a skipped record between two processed ones, the batch completed
C1_Witness ==
    /\ pc = "done"
    /\ Len(records) = 3
    /\ ~AsGiven(records[1]) /\ AsGiven(records[2]) /\ ~AsGiven(records[3])
    /\ records[1][1] # records[3][1]
    /\ Len(outputFC[1].rows) = 2
    /\ mergeList = <<NextWedgeName(2), NextWedgeName(4)>>

RECURSIVE OneRowEach(_)
OneRowEach(recs) ==
    IF recs = <<>> THEN <<>>
    ELSE (IF AsGiven(Head(recs)) THEN <<>>
          ELSE <<Row(Wanted(Head(recs)), <<Head(recs)[1]>>)>>)
         \o OneRowEach(Tail(recs))

RECURSIVE OneRowEachNonEmpty(_)
OneRowEachNonEmpty(recs) ==
    IF recs = <<>> THEN <<>>
    ELSE (IF AsGiven(Head(recs)) \/ Wanted(Head(recs)) = {} THEN <<>>
          ELSE <<Row(Wanted(Head(recs)), <<Head(recs)[1]>>)>>)
         \o OneRowEachNonEmpty(Tail(recs))

DistinctParts ==
    /\ \A i, j \in 1 .. Len(mergeList) : mergeList[i] = mergeList[j] => i = j
    /\ Len(mergeList) = CountNotSkipped(records)

\* C2 as stated: after createWedges completes the output holds exactly one
\* (Polygon, WID) entry per non-skipped record, its WID the id of the record
\* it was built from, none overwritten or lost, each accumulated part under
\* a name of its own.
C2_OneEntryPerRecord ==
    (pc = "done") =>
        /\ outputFC[1].rows = OneRowEach(records)
        /\ DistinctParts

\* C2 amended: the same, one entry per non-skipped record whose inner
\* radius is absent, zero or smaller than its outer radius; a non-skipped
\* record with r2 >= r1 has its part accumulated, but the part is empty and
\* adds no entry.
C2_OneEntryPerNonEmptyRecord ==
    (pc = "done") =>
        /\ outputFC[1].rows = OneRowEachNonEmpty(records)
        /\ "WID" \in outputFC[1].fields
        /\ DistinctParts

\* three processed records, the first and the last with different ids, the
\* middle one an arcband
C2_Witness ==
    /\ pc = "done"
    /\ Len(records) = 3
    /\ Len(outputFC[1].rows) = 3
    /\ Len(records[2]) = 7
    /\ outputFC[1].rows[1].WID = <<records[1][1]>>
    /\ outputFC[1].rows[3].WID = <<records[3][1]>>
    /\ records[1][1] # records[3][1]
    /\ outputFC[1].rows[1].geom # outputFC[1].rows[2].geom

\* C6: when a call of the geometry engine fails while a record is
\* processed, createWedges stops at once with that failure: no later record
\* is processed, no step follows, and the output feature class is never
\* written; the output is written only after the loop, by the final merge.
C6_FailureAbortsBatch ==
    /\ (failure # <<>> /\ failure[1] = "record") =>
          /\ pc = "failed"
          /\ outputFC = <<>>
          /\ idx = failure[2]
          /\ \A i \in 1 .. Len(calls) : calls[i].rec <= failure[2]
          /\ \A p \in 1 .. Len(records) :
                p >= failure[2] => ~InMergeList(NextWedgeName(p + 1))
          /\ ~ENABLED Next
    /\ (outputFC # <<>>) => (idx > Len(records) /\ pc \in {"done", "failed"})

\* the union of the second record's inner erase fails after its wedge was
\* built and the first record accumulated; a third record is still waiting
C6_Witness ==
    /\ pc = "failed"
    /\ failure[1] = "record" /\ failure[2] = 2 /\ failure[4] = "Union_analysis"
    /\ Len(records[2]) = 7
    /\ Len(records) = 3
    /\ Len(mergeList) = 1
    /\ GeomOf(memory[Mem("circle")]) = Disk(records[2][7])
    /\ outputFC = <<>>

\* C8: createWedges ends with an error, and writes no output, whenever no
\* part was accumulated for the final merge: on an empty attributesList and
\* when every record was skipped.
C8_NothingToMerge ==
    /\ (pc = "done") => (mergeList # <<>> /\ \E p \in 1 .. Len(records) : ~AsGiven(records[p]))
    /\ (outputFC # <<>>) => (mergeList # <<>>)
    /\ (pc = "loop" /\ idx > Len(records) /\ \A p \in 1 .. Len(records) : AsGiven(records[p]))
          => (mergeList = <<>> /\ ENABLED MergeNothing /\ ~ENABLED MergeWedges
                /\ ~ENABLED FailMerge)
    /\ (pc = "failed" /\ failure[1] = "merge" /\ mergeList = <<>>)
          => (outputFC = <<>> /\ failure[4] = "Merge_management"
                /\ \A p \in 1 .. Len(records) : AsGiven(records[p]))

\* every record of a batch of two was skipped and the merge raised
C8_Witness ==
    /\ pc = "failed"
    /\ failure[1] = "merge"
    /\ mergeList = <<>>
    /\ Len(records) >= 2
    /\ count = Len(records) + 1
    /\ outputFC = <<>>

----------------------------------------------------------------------------
(* The createOneWedge calls of createWedges (SpecWide) *)

SpanOfCall(c) == (c.angleB - c.angleA) % Deg(360)

\* C3: for a record whose span theta lies in (135, 225), createWedges calls
\* createOneWedge exactly twice, over [angleA, angleA + theta/2] and
\* [angleA + theta/2, angleA + theta] (bearings mod 360, the second ending at
\* the normalised angleB), each half strictly between 67.5 and 112.5
\* degrees; no call it ever makes has a span inside (135, 225).
C3_SplitInHalves ==
    /\ \A p \in 1 .. Len(records) :
          (Passed(p) /\ InUnsafeBand(Span(records[p]))) =>
              LET cs  == CallsOf(p)
                  a   == records[p][4] % Deg(360)
                  mid == (records[p][4] + Span(records[p]) \div 2) % Deg(360)
              IN  /\ Len(cs) = 2
                  /\ cs[1].angleA = a /\ cs[1].angleB = mid
                  /\ cs[2].angleA = mid /\ cs[2].angleB = records[p][5] % Deg(360)
                  /\ cs[2].angleB = (records[p][4] + Span(records[p])) % Deg(360)
                  /\ \A i \in 1 .. 2 :
                        /\ 2 * SpanOfCall(cs[i]) = Span(records[p])
                        /\ Deg(135) < 2 * SpanOfCall(cs[i])
                        /\ 2 * SpanOfCall(cs[i]) < Deg(225)
                        /\ cs[i].r = records[p][6]
    /\ \A i \in 1 .. Len(calls) : ~InUnsafeBand(SpanOfCall(calls[i]))

\* a split whose second half runs across north (its end bearing below its
\* start bearing)
C3_Witness ==
    /\ Len(calls) = 2
    /\ calls[2].angleB < calls[2].angleA
    /\ InUnsafeBand(Span(records[1]))
    /\ records[1][4] < 0
    /\ pc = "done"

\* the span createWedges has in mind for a call: theta, or theta/2 for each
\* half of a split
BatchSpan(c) ==
    IF InUnsafeBand(Span(records[c.rec])) THEN Span(records[c.rec]) \div 2
    ELSE Span(records[c.rec])

FlagsAgree(c) ==
    /\ EraseBool(c.angleA, c.angleB) <=> (BatchSpan(c) > Deg(180))
    /\ SpanOfCall(c) = BatchSpan(c)
    /\ (c.branch = "erase") <=> (BatchSpan(c) > Deg(180))
    /\ (c.branch = "erase")
          <=> (~InUnsafeBand(Span(records[c.rec])) /\ Span(records[c.rec]) >= Deg(225))

\* C10 as stated: for every pair of bearings createWedges passes to
\* createOneWedge, the builder's reflex flag agrees with the span the batch
\* has for that call; the builder erases the triangle from the disk exactly
\* when the clockwise span exceeds 180 degrees (only direct calls with
\* theta >= 225) and intersects otherwise.
C10_ReflexFlagAgrees ==
    \A i \in 1 .. Len(calls) :
        /\ FlagsAgree(calls[i])
        /\ (calls[i].branch = "clip") <=> ~(BatchSpan(calls[i]) > Deg(180))

\* C10 amended: the same, except that a call with span 0 (bearings a
\* non-zero multiple of 360 apart) neither erases nor intersects: it copies
\* the disk.
C10_ReflexFlagAgreesButCopy ==
    \A i \in 1 .. Len(calls) :
        /\ FlagsAgree(calls[i])
        /\ (calls[i].branch = "clip")
              <=> (0 < BatchSpan(calls[i]) /\ BatchSpan(calls[i]) <= Deg(180))
        /\ (calls[i].branch = "copy") <=> (BatchSpan(calls[i]) = 0)

\* a direct reflex call whose end bearing is below its start bearing, from
\* bearings given outside [0, 360)
C10_Witness ==
    /\ Len(calls) = 1
    /\ calls[1].angleB < calls[1].angleA
    /\ calls[1].branch = "erase"
    /\ records[1][5] > records[1][4]
    /\ records[1][5] >= Deg(360)
    /\ pc = "done"

\* C7: a record whose bearings differ by a non-zero multiple of 360 degrees
\* is not skipped; it reaches createOneWedge with theta = 0, which returns
\* the full disk of radius r1 without clipping or erasing with a triangle.
C7_WholeTurnsGiveDisk ==
    \A p \in 1 .. Len(records) :
        (Passed(p) /\ pc # "failed" /\ ~AsGiven(records[p]) /\ Span(records[p]) = 0) =>
            /\ Len(CallsOf(p)) = 1
            /\ CallsOf(p)[1].angleA = CallsOf(p)[1].angleB
            /\ CallsOf(p)[1].r = records[p][6]
            /\ CallsOf(p)[1].branch = "copy"
            /\ GeomOf(memory[Mem("oWedge")]) = Disk(records[p][6])
            /\ Area(GeomOf(memory[Mem("oWedge")])) * CellTicks
                  = records[p][6] * records[p][6] * Deg(360)
            /\ InMergeList(NextWedgeName(p + 1))
            /\ GeomOf(memory[NextWedgeName(p + 1)]) = Disk(records[p][6])

\* bearings two whole turns apart, the disk in the output
C7_Witness ==
    /\ pc = "done"
    /\ Len(records) = 1
    /\ records[1][5] - records[1][4] = Deg(720)
    /\ records[1][4] % Deg(360) # 0
    /\ Len(outputFC[1].rows) = 1
    /\ outputFC[1].rows[1].geom = Disk(records[1][6])

====
